---- MODULE Spec2Model ----
(***************************************************************************)
(* Model of the incremental extraction pipeline of                         *)
(* src/pr_analysis/pr_get_preFunc.py: process_all_prs, its worker          *)
(* process_pr_thread, process_pr, and the two JSON files it reads and      *)
(* writes (the output file and the ".temp" checkpoint).                    *)
(*                                                                         *)
(* A behaviour is a sequence of runs of process_all_prs over one PR list   *)
(* and one external API.  A run ends normally (mainPc = "done") or is      *)
(* terminated from outside (Kill); the next run starts from the files the  *)
(* previous one left behind.                                               *)
(***************************************************************************)
EXTENDS Integers, Sequences, FiniteSets, TLC

(* ---------------------------------------------------------------------- *)
(* Bounds of the model and constants of the program                       *)
(* ---------------------------------------------------------------------- *)

\* number of PR records in pr_data
NumPRs == 6

\* largest thread_count a run is started with
MaxThreads == 2

\* number of runs of process_all_prs in one behaviour
MaxRuns == 2

\* number of failing writes (json.dump raising) in one behaviour
MaxIOFail == 1

\* "if current_count % 5 == 0": a checkpoint every 5 counted PRs
CheckpointEvery == 5

Indices == 1..NumPRs
Workers == 1..MaxThreads
Funcs == {"f", "g"}
NoTask == 0
NoOwner == 0

(* ---------------------------------------------------------------------- *)
(* Maps (Python dicts) as functions with a finite domain                   *)
(* ---------------------------------------------------------------------- *)

EmptyMap == [x \in {} |-> "old"]

Put(m, k, v) == [x \in (DOMAIN m) \cup {k} |-> IF x = k THEN v ELSE m[x]]

\* dict.get(k, {})
GetOrEmpty(m, k) == IF k \in DOMAIN m THEN m[k] ELSE EmptyMap

\* the (PR number, function name) keys of a result map
KeysOf(m) == {<<n, f>> \in (DOMAIN m) \X Funcs : f \in DOMAIN m[n]}

Range(s) == {s[i] : i \in DOMAIN s}

(* ---------------------------------------------------------------------- *)
(* Files                                                                   *)
(* ---------------------------------------------------------------------- *)

\* a file on disk: absent, a complete JSON document (data), or the
\* truncated / partly written text that open(..., 'w') and an unfinished
\* json.dump leave behind
AbsentFile == [status |-> "absent", data |-> EmptyMap]
PartialFile == [status |-> "partial", data |-> EmptyMap]
ValidFile(m) == [status |-> "valid", data |-> m]

\* load_json_file: the parsed document; {} when the file does not exist
\* (FileNotFoundError) or cannot be parsed (any other exception)
load_json_file(file) == IF file.status = "valid" THEN file.data ELSE EmptyMap

(* ---------------------------------------------------------------------- *)
(* Inputs: the PR list and the answers of the external API                 *)
(* ---------------------------------------------------------------------- *)

\* One PR record of pr_data, reduced to what process_pr reads:
\*   number   pr.get('number')
\*   hasMF    'modified_functions' in pr
\*   all      modified_functions['all'], a list without repetitions
\*   by_file  the functions that modified_functions['by_file'] lists under
\*            the PR's file
\*   patches  "empty"  pr['patches'] is missing or {}
\*            "nofile" patches has no entry for the file
\*            "noblob" the entry has no blob_url
\*            "ok"     the entry has a blob_url
PR(n, mf, all, by, pt) ==
    [number |-> n, hasMF |-> mf, all |-> all, by_file |-> by, patches |-> pt]

\* The answers of the API for the file of one PR record:
\*   commit  the commit lookup: "ok" (a first parent is returned) or
\*           "none" (non-200, no parents, or an exception: the function
\*           returns (None, None))
\*   fetch   the download of the parent's file: "ok" or "fail" (the commit
\*           lookup, the contents request and the raw request considered
\*           together)
\*   found   the functions whose definition the parent's file contains
Answer(c, d, fs) == [commit |-> c, fetch |-> d, found |-> fs]

OldEntry == "old"
NewEntry == "new"

(* ---------------------------------------------------------------------- *)
(* process_pr                                                              *)
(* ---------------------------------------------------------------------- *)

\* existing_functions.get(str(pr_number), {})
pr_existing(p, existing) == GetOrEmpty(existing, p.number)

\* process_pr reaches its loop: it has modified_functions, a non-empty
\* 'all' list and a non-empty patches field
ReachesLoop(p) == p.hasMF /\ p.all # <<>> /\ p.patches # "empty"

\* a check that never finds the stored entry
never_exists(f, pe) == FALSE

\* "if function_name in pr_existing"
already_exists(f, pe) == f \in DOMAIN pe

\* a loop that skips the stored functions without copying their entries
CopiedNone(p, existing) == {}

\* the functions of 'all' that the loop copies from the stored entry
Copied(p, existing) ==
    {f \in Range(p.all) : ReachesLoop(p) /\ already_exists(f, pr_existing(p, existing))}

\* the file, its patch_info and its blob_url are found for the function
has_blob_url(p, f) == f \in p.by_file /\ p.patches = "ok"

\* the functions for which get_previous_commit_info sends the commit lookup
Resolved(p, existing) ==
    {f \in Range(p.all) :
        /\ ReachesLoop(p)
        /\ ~already_exists(f, pr_existing(p, existing))
        /\ has_blob_url(p, f)}

\* get_previous_commit_info returned a parent commit: the functions for
\* which download_file_from_commit is called
Fetched(p, a, existing) == {f \in Resolved(p, existing) : a.commit = "ok"}

\* the download returned content: extract_cpp_function is called
Extracted(p, a, existing) == {f \in Fetched(p, a, existing) : a.fetch = "ok"}

\* extract_cpp_function returned a definition
Succeeded(p, a, existing) == {f \in Extracted(p, a, existing) : f \in a.found}

\* the functions whose parent-commit resolution or content fetch failed
FailedIn(p, a, existing) == Resolved(p, existing) \ Extracted(p, a, existing)

\* a process_pr that also writes an entry for a function whose resolution
\* or fetch failed
process_pr_recording_failures(p, a, existing) ==
    [f \in Copied(p, existing) \cup Succeeded(p, a, existing)
            \cup FailedIn(p, a, existing) |->
        IF f \in Copied(p, existing)
        THEN pr_existing(p, existing)[f]
        ELSE NewEntry]

\* the dictionary process_pr returns
process_pr(p, a, existing) ==
    [f \in Copied(p, existing) \cup Succeeded(p, a, existing) |->
        IF f \in Copied(p, existing)
        THEN pr_existing(p, existing)[f]
        ELSE NewEntry]

(* ---------------------------------------------------------------------- *)
(* State                                                                   *)
(* ---------------------------------------------------------------------- *)

VARIABLES
    prs,                \* pr_data: the PR list, the same in every run
    api,                \* the answers of the API, one per PR record
    thread_count,       \* the thread_count argument
    outFile,            \* the file output_file
    tempFile,           \* the file output_file + ".temp"
    run,                \* which run of process_all_prs this is
    mainPc,             \* where process_all_prs stands
    existing_functions, \* the map loaded when the run started
    results,            \* the shared result map
    results_lock,       \* owner of results_lock, NoOwner when free
    processed_lock,     \* owner of processed_lock, NoOwner when free
    processed_count,    \* processed_count
    next,               \* index of the next PR record the pool hands out
    pc,                 \* where each worker thread stands
    task,               \* the PR record each worker is handling
    pr_result,          \* pr_result of each worker
    current_count,      \* current_count of each worker
    ioFail,             \* failing writes so far
    resolved,           \* per key: commit lookups sent in this run
    fetched,            \* per key: downloads started in this run
    extracted,          \* per key: extract_cpp_function calls in this run
    counted,            \* the PR records counted in processed_count
    failed,             \* keys whose resolution or fetch failed in this run
    outWrites,          \* writes of the output file begun in this run
    flushed,            \* a checkpoint flush completed in this run
    prev,               \* the previous run: how it ended, the map it returned,
                        \* the keys that failed in it, and the checkpoint it
                        \* left when it was terminated after a flush
    op,                 \* the text function or request sequence under study
    arg,                \* its input
    ret                 \* its result

vars == <<prs, api, thread_count, outFile, tempFile, run, mainPc,
          existing_functions, results, results_lock, processed_lock,
          processed_count, next, pc, task, pr_result, current_count, ioFail,
          resolved, fetched, extracted, counted, failed, outWrites, flushed,
          prev, op, arg, ret>>

\* the state of the pipeline
pipelineVars == <<prs, api, thread_count, outFile, tempFile, run, mainPc,
                  existing_functions, results, results_lock, processed_lock,
                  processed_count, next, pc, task, pr_result, current_count,
                  ioFail, resolved, fetched, extracted, counted, failed,
                  outWrites, flushed, prev>>

\* the state of the functions that are studied on their own
TextOff == op = "none" /\ arg = <<>> /\ ret = <<>>
textVars == <<op, arg, ret>>

inputVars == <<prs, api, thread_count>>
fileVars == <<outFile, tempFile>>
callVars == <<resolved, fetched, extracted, failed>>

\* the PR numbers that occur in the PR list or in a stored map
Numbers == 0..NumPRs
Keys == Numbers \X Funcs

NoCalls == [k \in Keys |-> 0]

\* one more call for every function of fs under PR number n
Count(calls, n, fs) ==
    [k \in Keys |-> IF k[1] = n /\ k[2] \in fs THEN calls[k] + 1 ELSE calls[k]]

NoPrev ==
    [ended |-> "none", returned |-> EmptyMap, failed |-> {}, checkpoint |-> EmptyMap]

(* ---------------------------------------------------------------------- *)
(* Initial states                                                          *)
(* ---------------------------------------------------------------------- *)

\* a PR that changes one function f of one file
StdPR(n) == PR(n, TRUE, <<"f">>, {"f"}, "ok")

AllOk == Answer("ok", "ok", Funcs)
NoParent == Answer("none", "ok", Funcs)
NoContent == Answer("ok", "fail", Funcs)
OnlyF == Answer("ok", "ok", {"f"})

Stored(fs) == [f \in fs |-> OldEntry]

\* the output file before the first run: absent, an entry for f of PR 1,
\* entries for f and g of PR 1 and for a PR (number 0) that is not in the list
NoPrior == AbsentFile
PriorF == ValidFile([n \in {1} |-> Stored({"f"})])
PriorFG == ValidFile([n \in {0, 1} |-> IF n = 0 THEN Stored({"f"}) ELSE Stored(Funcs)])

Case(p, a, file) == [first |-> p, answer |-> a, prior |-> file]

\* The first PR record (number n), the answers of the API for it and the
\* output file before the first run.  The other PR records are StdPR with
\* the answers AllOk.
Cases(n) ==
    { \* the PR lists f
      Case(PR(n, TRUE, <<"f">>, {"f"}, "ok"), AllOk, NoPrior),
      Case(PR(n, TRUE, <<"f">>, {"f"}, "ok"), NoParent, NoPrior),
      Case(PR(n, TRUE, <<"f">>, {"f"}, "ok"), NoContent, NoPrior),
      Case(PR(n, TRUE, <<"f">>, {"f"}, "ok"), AllOk, PriorF),
      \* the PR lists g
      Case(PR(n, TRUE, <<"g">>, {"g"}, "ok"), AllOk, PriorF),
      Case(PR(n, TRUE, <<"g">>, {"g"}, "ok"), NoParent, PriorF),
      Case(PR(n, TRUE, <<"g">>, {"g"}, "ok"), OnlyF, PriorF),
      Case(PR(n, TRUE, <<"g">>, {"g"}, "ok"), AllOk, PriorFG),
      \* the PR lists f and g
      Case(PR(n, TRUE, <<"f", "g">>, Funcs, "ok"), AllOk, NoPrior),
      Case(PR(n, TRUE, <<"f", "g">>, Funcs, "ok"), AllOk, PriorF),
      Case(PR(n, TRUE, <<"f", "g">>, Funcs, "ok"), OnlyF, NoPrior),
      Case(PR(n, TRUE, <<"f", "g">>, Funcs, "ok"), NoContent, PriorF),
      Case(PR(n, TRUE, <<"f", "g">>, Funcs, "ok"), NoParent, PriorFG),
      \* g is in 'all' and in no list of by_file
      Case(PR(n, TRUE, <<"f", "g">>, {"f"}, "ok"), AllOk, NoPrior),
      \* no modified_functions, no patches, no blob_url
      Case(PR(n, FALSE, <<>>, {}, "ok"), AllOk, PriorF),
      Case(PR(n, TRUE, <<"f">>, {"f"}, "empty"), AllOk, PriorF),
      Case(PR(n, TRUE, <<"f">>, {"f"}, "noblob"), AllOk, NoPrior),
      Case(PR(n, TRUE, <<"f", "g">>, Funcs, "noblob"), AllOk, PriorF) }

\* the PR list of a case: pairwise different PR numbers 1..NumPRs
UniqueList(c) == [i \in Indices |-> IF i = 1 THEN c.first ELSE StdPR(i)]

AnswersOf(c) == [i \in Indices |-> IF i = 1 THEN c.answer ELSE AllOk]

\* the state of a run that has just loaded file as its existing functions
StartRun(file) ==
    /\ mainPc = "running"
    /\ existing_functions = load_json_file(file)
    /\ results = load_json_file(file)
    /\ results_lock = NoOwner
    /\ processed_lock = NoOwner
    /\ processed_count = 0
    /\ next = 1
    /\ pc = [w \in Workers |-> "idle"]
    /\ task = [w \in Workers |-> NoTask]
    /\ pr_result = [w \in Workers |-> EmptyMap]
    /\ current_count = [w \in Workers |-> 0]
    /\ resolved = NoCalls
    /\ fetched = NoCalls
    /\ extracted = NoCalls
    /\ counted = {}
    /\ failed = {}
    /\ outWrites = 0
    /\ flushed = FALSE

InitWith(c, list) ==
    /\ prs = list
    /\ api = AnswersOf(c)
    /\ thread_count \in 1..MaxThreads
    /\ outFile = c.prior
    /\ tempFile = AbsentFile
    /\ run = 1
    /\ ioFail = 0
    /\ prev = NoPrev
    /\ StartRun(outFile)
    /\ TextOff

Init == \E c \in Cases(1) : InitWith(c, UniqueList(c))

(* ---------------------------------------------------------------------- *)
(* process_pr_thread, one action per step of a worker thread               *)
(* ---------------------------------------------------------------------- *)

Goto(w, label) == pc' = [pc EXCEPT ![w] = label]

\* A free pool thread takes the next submitted PR record and runs
\* process_pr on it with the map loaded at the start of the run.  process_pr
\* reads only its arguments (existing_functions is never written after the
\* load) and writes only its own result, so its network calls are one step.
StartTask(w) ==
    /\ mainPc = "running"
    /\ w <= thread_count
    /\ pc[w] = "idle"
    /\ next <= NumPRs
    /\ LET p == prs[next]
           a == api[next]
           r == process_pr(p, a, existing_functions)
       IN /\ task' = [task EXCEPT ![w] = next]
          /\ pr_result' = [pr_result EXCEPT ![w] = r]
          /\ resolved' = Count(resolved, p.number, Resolved(p, existing_functions))
          /\ fetched' = Count(fetched, p.number, Fetched(p, a, existing_functions))
          /\ extracted' = Count(extracted, p.number, Extracted(p, a, existing_functions))
          /\ failed' = failed \cup ({p.number} \X FailedIn(p, a, existing_functions))
          /\ Goto(w, IF r # EmptyMap THEN "lock_results" ELSE "lock_count")
    /\ next' = next + 1
    /\ UNCHANGED <<textVars, inputVars, fileVars, run, mainPc, existing_functions, results,
                   results_lock, processed_lock, processed_count, current_count,
                   ioFail, counted, outWrites, flushed, prev>>

\* a lock that is handed out while another thread holds it
always_acquire(lock) == TRUE

\* a lock can be taken when no thread holds it
can_acquire(lock) == lock = NoOwner

\* a lock that stays with its holder when the "with" block is left
never_released(lock) == lock

\* leaving a "with lock:" block, by its end or by an exception, frees the lock
release(lock) == NoOwner

\* "with results_lock:" of the result update
AcquireResults(w) ==
    /\ mainPc = "running"
    /\ pc[w] = "lock_results"
    /\ can_acquire(results_lock)
    /\ results_lock' = w
    /\ Goto(w, "write")
    /\ UNCHANGED <<textVars, inputVars, fileVars, run, mainPc, existing_functions, results,
                   processed_lock, processed_count, next, task, pr_result,
                   current_count, ioFail, callVars, counted, outWrites, flushed, prev>>

\* "results[pr_number] = pr_result", then the lock is released
WriteResult(w) ==
    /\ mainPc = "running"
    /\ pc[w] = "write"
    /\ results' = Put(results, prs[task[w]].number, pr_result[w])
    /\ results_lock' = release(results_lock)
    /\ Goto(w, "lock_count")
    /\ UNCHANGED <<textVars, inputVars, fileVars, run, mainPc, existing_functions,
                   processed_lock, processed_count, next, task, pr_result,
                   current_count, ioFail, callVars, counted, outWrites, flushed, prev>>

\* "with processed_lock: processed_count += 1; current_count = ..."
CountPR(w) ==
    /\ mainPc = "running"
    /\ pc[w] = "lock_count"
    /\ can_acquire(processed_lock)
    /\ processed_lock' = w
    /\ processed_count' = processed_count + 1
    /\ current_count' = [current_count EXCEPT ![w] = processed_count + 1]
    /\ counted' = counted \cup {task[w]}
    /\ Goto(w, IF (processed_count + 1) % CheckpointEvery = 0
               THEN "lock_checkpoint" ELSE "unlock_count")
    /\ UNCHANGED <<textVars, inputVars, fileVars, run, mainPc, existing_functions, results,
                   results_lock, next, task, pr_result, ioFail, callVars,
                   outWrites, flushed, prev>>

\* "with results_lock:" of the checkpoint, inside processed_lock
AcquireForCheckpoint(w) ==
    /\ mainPc = "running"
    /\ pc[w] = "lock_checkpoint"
    /\ can_acquire(results_lock)
    /\ results_lock' = w
    /\ Goto(w, "open_checkpoint")
    /\ UNCHANGED <<textVars, inputVars, fileVars, run, mainPc, existing_functions, results,
                   processed_lock, processed_count, next, task, pr_result,
                   current_count, ioFail, callVars, counted, outWrites, flushed, prev>>

\* save_json_file(results, output_file + ".temp"), first half:
\* open(..., 'w') truncates the file, or raises and leaves it as it was
OpenCheckpoint(w) ==
    /\ mainPc = "running"
    /\ pc[w] = "open_checkpoint"
    /\ \/ /\ tempFile' = PartialFile
          /\ Goto(w, "dump_checkpoint")
          /\ UNCHANGED <<ioFail, results_lock>>
       \/ /\ ioFail < MaxIOFail
          /\ ioFail' = ioFail + 1
          /\ results_lock' = release(results_lock)
          /\ Goto(w, "unlock_count")
          /\ UNCHANGED tempFile
    /\ UNCHANGED <<textVars, inputVars, outFile, run, mainPc, existing_functions, results,
                   processed_lock, processed_count, next, task, pr_result,
                   current_count, callVars, counted, outWrites, flushed, prev>>

\* save_json_file, second half: json.dump writes the whole map, or raises
\* part-way; either way save_json_file returns and results_lock is released
DumpCheckpoint(w) ==
    /\ mainPc = "running"
    /\ pc[w] = "dump_checkpoint"
    /\ \/ /\ tempFile' = ValidFile(results)
          /\ flushed' = TRUE
          /\ UNCHANGED ioFail
       \/ /\ ioFail < MaxIOFail
          /\ ioFail' = ioFail + 1
          /\ UNCHANGED <<tempFile, flushed>>
    /\ results_lock' = release(results_lock)
    /\ Goto(w, "unlock_count")
    /\ UNCHANGED <<textVars, inputVars, outFile, run, mainPc, existing_functions, results,
                   processed_lock, processed_count, next, task, pr_result,
                   current_count, callVars, counted, outWrites, prev>>

\* processed_lock is released and process_pr_thread returns
FinishTask(w) ==
    /\ mainPc = "running"
    /\ pc[w] = "unlock_count"
    /\ processed_lock' = release(processed_lock)
    /\ task' = [task EXCEPT ![w] = NoTask]
    /\ pr_result' = [pr_result EXCEPT ![w] = EmptyMap]
    /\ current_count' = [current_count EXCEPT ![w] = 0]
    /\ Goto(w, "idle")
    /\ UNCHANGED <<textVars, inputVars, fileVars, run, mainPc, existing_functions, results,
                   results_lock, processed_count, next, ioFail, callVars, counted,
                   outWrites, flushed, prev>>

(* ---------------------------------------------------------------------- *)
(* process_all_prs after the pool, termination from outside, the next run  *)
(* ---------------------------------------------------------------------- *)

\* every future has a result: the "with ThreadPoolExecutor" block is left
AllTasksEnded == next > NumPRs /\ \A w \in Workers : pc[w] = "idle"

\* save_json_file(results, output_file), first half
OpenOutput ==
    /\ mainPc = "running"
    /\ AllTasksEnded
    /\ outWrites' = outWrites + 1
    /\ \/ /\ outFile' = PartialFile
          /\ mainPc' = "dump_output"
          /\ UNCHANGED ioFail
       \/ /\ ioFail < MaxIOFail
          /\ ioFail' = ioFail + 1
          /\ mainPc' = "done"
          /\ UNCHANGED outFile
    /\ UNCHANGED <<textVars, inputVars, tempFile, run, existing_functions, results,
                   results_lock, processed_lock, processed_count, next, pc, task,
                   pr_result, current_count, callVars, counted, flushed, prev>>

\* save_json_file(results, output_file), second half, and "return results"
DumpOutput ==
    /\ mainPc = "dump_output"
    /\ \/ /\ outFile' = ValidFile(results)
          /\ UNCHANGED ioFail
       \/ /\ ioFail < MaxIOFail
          /\ ioFail' = ioFail + 1
          /\ UNCHANGED outFile
    /\ mainPc' = "done"
    /\ UNCHANGED <<textVars, inputVars, tempFile, run, existing_functions, results,
                   results_lock, processed_lock, processed_count, next, pc, task,
                   pr_result, current_count, callVars, counted, outWrites, flushed,
                   prev>>

\* The process is terminated from outside: its memory is gone, the two
\* files stay as they are.
Kill ==
    /\ mainPc \in {"running", "dump_output"}
    /\ mainPc' = "killed"
    /\ prev' = [ended |-> "killed", returned |-> EmptyMap, failed |-> {},
                checkpoint |-> IF mainPc = "running" /\ flushed /\ tempFile.status = "valid"
                               THEN tempFile.data ELSE EmptyMap]
    /\ existing_functions' = EmptyMap
    /\ results' = EmptyMap
    /\ results_lock' = NoOwner
    /\ processed_lock' = NoOwner
    /\ processed_count' = 0
    /\ next' = 1
    /\ pc' = [w \in Workers |-> "idle"]
    /\ task' = [w \in Workers |-> NoTask]
    /\ pr_result' = [w \in Workers |-> EmptyMap]
    /\ current_count' = [w \in Workers |-> 0]
    /\ resolved' = NoCalls
    /\ fetched' = NoCalls
    /\ extracted' = NoCalls
    /\ counted' = {}
    /\ failed' = {}
    /\ outWrites' = 0
    /\ flushed' = FALSE
    /\ UNCHANGED <<textVars, inputVars, fileVars, run, ioFail>>

\* process_all_prs is called again on the same PR list:
\* "existing_functions = load_json_file(output_file)" and
\* "results = existing_functions.copy()"
Restart ==
    /\ mainPc \in {"done", "killed"}
    /\ run < MaxRuns
    /\ run' = run + 1
    /\ mainPc' = "running"
    /\ existing_functions' = load_json_file(outFile)
    /\ results' = load_json_file(outFile)
    /\ results_lock' = NoOwner
    /\ processed_lock' = NoOwner
    /\ processed_count' = 0
    /\ next' = 1
    /\ pc' = [w \in Workers |-> "idle"]
    /\ task' = [w \in Workers |-> NoTask]
    /\ pr_result' = [w \in Workers |-> EmptyMap]
    /\ current_count' = [w \in Workers |-> 0]
    /\ resolved' = NoCalls
    /\ fetched' = NoCalls
    /\ extracted' = NoCalls
    /\ counted' = {}
    /\ failed' = {}
    /\ outWrites' = 0
    /\ flushed' = FALSE
    /\ prev' = IF mainPc = "done"
               THEN [ended |-> "returned", returned |-> results, failed |-> failed,
                     checkpoint |-> EmptyMap]
               ELSE prev
    /\ UNCHANGED <<textVars, inputVars, fileVars, ioFail>>

Next ==
    \/ \E w \in Workers : StartTask(w)
    \/ \E w \in Workers : AcquireResults(w)
    \/ \E w \in Workers : WriteResult(w)
    \/ \E w \in Workers : CountPR(w)
    \/ \E w \in Workers : AcquireForCheckpoint(w)
    \/ \E w \in Workers : OpenCheckpoint(w)
    \/ \E w \in Workers : DumpCheckpoint(w)
    \/ \E w \in Workers : FinishTask(w)
    \/ OpenOutput
    \/ DumpOutput
    \/ Kill
    \/ Restart

Spec == Init /\ [][Next]_vars

\* The same runs over a PR list in which the first two records carry the
\* same PR number.
OverlapList(c) ==
    [i \in Indices |-> IF i = 1 THEN c.first
                       ELSE IF i = 2 THEN StdPR(1) ELSE StdPR(i)]

InitOverlap ==
    \E c \in {d \in Cases(1) : d.prior = NoPrior} : InitWith(c, OverlapList(c))

SpecOverlap == InitOverlap /\ [][Next]_vars

(* ---------------------------------------------------------------------- *)
(* Properties                                                              *)
(* ---------------------------------------------------------------------- *)

Busy(w) == task[w] # NoTask
TaskPR(w) == prs[task[w]]
Live == mainPc \in {"running", "dump_output", "done"}
EntryOf(m, k) == m[k[1]][k[2]]

\* C1: a run that starts from the map the previous run returned, on the
\* same PR list and with the same API answers, returns (and, when its write
\* succeeds, writes) exactly that map.
C1_SecondRunIdentical ==
    (mainPc = "done" /\ prev.ended = "returned" /\ existing_functions = prev.returned)
        => /\ results = prev.returned
           /\ outFile.status = "valid" => outFile.data = prev.returned

C1_Witness ==
    /\ mainPc = "done"
    /\ run = 2
    /\ prev.ended = "returned"
    /\ existing_functions = prev.returned
    /\ outFile = ValidFile(results)
    /\ \E k \in KeysOf(results) : EntryOf(results, k) = OldEntry
    /\ \E k \in KeysOf(results) : EntryOf(results, k) = NewEntry
    /\ failed # {}

C7_FailedKeyRetried ==
    /\ \A k \in failed : Live => k \notin KeysOf(results)
    /\ \A w \in Workers : Busy(w) =>
          \A f \in Funcs :
              <<TaskPR(w).number, f>> \in failed => f \notin DOMAIN pr_result[w]
    /\ \A k \in prev.failed : Live => k \notin KeysOf(existing_functions)
    /\ \A i \in counted : \A f \in Funcs :
          <<prs[i].number, f>> \in prev.failed => resolved[<<prs[i].number, f>>] >= 1

C7_Witness ==
    /\ run = 2
    /\ mainPc = "done"
    /\ prev.ended = "returned"
    /\ \E k \in prev.failed : k \in failed /\ resolved[k] = 1 /\ k \notin KeysOf(results)

\* C9: a worker that is writing the result map or writing it to the
\* checkpoint holds results_lock, and no two workers are in such a section
\* at the same time.
InResultsSection(w) == pc[w] \in {"write", "open_checkpoint", "dump_checkpoint"}

C9_ResultsLockGuardsMap ==
    /\ \A w \in Workers : InResultsSection(w) => results_lock = w
    /\ \A v, w \in Workers : (InResultsSection(v) /\ InResultsSection(w)) => v = w

C9_Witness ==
    \E v, w \in Workers :
        /\ pc[v] = "dump_checkpoint"
        /\ pc[w] = "lock_results"
        /\ results_lock = v

\* C3: every entry of the map loaded at the start of the run is, with the
\* same value, in the map the run returns.
C3_PriorEntriesKept ==
    mainPc = "done" =>
        \A k \in KeysOf(existing_functions) :
            k \in KeysOf(results) /\ EntryOf(results, k) = EntryOf(existing_functions, k)

\* C4: in a run that follows a run terminated after a checkpoint flush and
\* before the final flush, no key of that checkpoint is resolved or
\* extracted again.
C4_ResumesFromCheckpoint ==
    (mainPc = "running" /\ prev.ended = "killed") =>
        \A k \in KeysOf(prev.checkpoint) : resolved[k] = 0 /\ extracted[k] = 0

\* the non-empty result of a counted PR record is not what the checkpoint
\* file holds for the PR
MissingFromCheckpoint(i) ==
    LET r == process_pr(prs[i], api[i], existing_functions)
        n == prs[i].number
    IN /\ r # EmptyMap
       /\ ~(/\ tempFile.status = "valid"
            /\ n \in DOMAIN tempFile.data
            /\ tempFile.data[n] = r)

FlushPending ==
    \E w \in Workers : pc[w] \in {"lock_checkpoint", "open_checkpoint", "dump_checkpoint"}

\* C5: while the pool runs and no worker is about to flush or flushing,
\* fewer than 5 counted PR records have their result missing from the
\* checkpoint file.
C5_FewerThanFiveUnflushed ==
    (mainPc = "running" /\ ~FlushPending) =>
        Cardinality({i \in counted : MissingFromCheckpoint(i)}) < CheckpointEvery

\* C6: the checkpoint file and the output file never hold a truncated or
\* partly written document.
C6_FilesNeverPartial == outFile.status # "partial" /\ tempFile.status # "partial"

\* C8: no (PR, function) key is resolved, fetched or extracted more than
\* once in a run, also when two PR records carry the same PR number.
C8_KeyHandledOnce ==
    \A k \in Keys : resolved[k] <= 1 /\ fetched[k] <= 1 /\ extracted[k] <= 1

\* C10: a run in which no write failed has, when it returns, written the
\* output file once, after every task ended, and the file holds every entry
\* of the map loaded at the start and the non-empty result of every PR.
C10_FinalWriteComplete ==
    /\ outWrites > 0 => AllTasksEnded
    /\ (mainPc = "done" /\ ioFail = 0) =>
          /\ outWrites = 1
          /\ outFile.status = "valid"
          /\ \A k \in KeysOf(existing_functions) :
                /\ k \in KeysOf(outFile.data)
                /\ EntryOf(outFile.data, k) = EntryOf(existing_functions, k)
          /\ \A i \in Indices :
                LET r == process_pr(prs[i], api[i], existing_functions)
                IN r # EmptyMap =>
                      /\ prs[i].number \in DOMAIN outFile.data
                      /\ outFile.data[prs[i].number] = r

\* C11: a step in which a write of the checkpoint or of the output file
\* fails ends the run with an error: the run neither goes on nor returns
\* normally.
C11_WriteFailureFatal ==
    [][ioFail' > ioFail => mainPc' \notin {"running", "done"}]_vars

(* ---------------------------------------------------------------------- *)
(* Functions studied on their own: the pipeline does not run               *)
(* ---------------------------------------------------------------------- *)

PipelineOff ==
    /\ prs = <<>>
    /\ api = <<>>
    /\ thread_count = 1
    /\ outFile = AbsentFile
    /\ tempFile = AbsentFile
    /\ run = 1
    /\ ioFail = 0
    /\ prev = NoPrev
    /\ mainPc = "off"
    /\ existing_functions = EmptyMap
    /\ results = EmptyMap
    /\ results_lock = NoOwner
    /\ processed_lock = NoOwner
    /\ processed_count = 0
    /\ next = 1
    /\ pc = [w \in Workers |-> "idle"]
    /\ task = [w \in Workers |-> NoTask]
    /\ pr_result = [w \in Workers |-> EmptyMap]
    /\ current_count = [w \in Workers |-> 0]
    /\ resolved = NoCalls
    /\ fetched = NoCalls
    /\ extracted = NoCalls
    /\ counted = {}
    /\ failed = {}
    /\ outWrites = 0
    /\ flushed = FALSE

(* ---------------------------------------------------------------------- *)
(* Text: strings are sequences of one-character strings                    *)
(* ---------------------------------------------------------------------- *)

\* largest number of pieces a generated text is made of
MaxPieces == 6

\* the value None
None == <<"None">>

Min(S) == CHOOSE x \in S : \A y \in S : x <= y
Max(S) == CHOOSE x \in S : \A y \in S : x >= y

\* \s and \w of the re module, for the characters that occur in the texts
IsSpace(c) == c \in {" ", "\n"}
IsWord(c) ==
    c \in {"C", "c", "d", "e", "f", "g", "h", "i", "l", "n", "o", "r", "s", "t",
           "v", "w", "x"}

CountChar(t, c) == Cardinality({k \in DOMAIN t : t[k] = c})

\* t occurs in s at position i
StartsWith(s, i, t) ==
    /\ i >= 1
    /\ i + Len(t) - 1 <= Len(s)
    /\ \A k \in 1..Len(t) : s[i + k - 1] = t[k]

\* the end of a greedy \s* that starts at i: the first position from i on
\* that holds no whitespace, Len(s) + 1 when there is none
SkipSpace(s, i) ==
    IF \E j \in i..Len(s) : ~IsSpace(s[j])
    THEN Min({j \in i..Len(s) : ~IsSpace(s[j])})
    ELSE Len(s) + 1

\* str.strip()
strip(t) ==
    IF \A k \in DOMAIN t : IsSpace(t[k])
    THEN <<>>
    ELSE SubSeq(t, Min({k \in DOMAIN t : ~IsSpace(t[k])}),
                   Max({k \in DOMAIN t : ~IsSpace(t[k])}))

\* the text up to the first newline
FirstLine(t) ==
    IF \E k \in DOMAIN t : t[k] = "\n"
    THEN SubSeq(t, 1, Min({k \in DOMAIN t : t[k] = "\n"}) - 1)
    ELSE t

RECURSIVE Flatten(_)
Flatten(ps) == IF ps = <<>> THEN <<>> ELSE Head(ps) \o Flatten(Tail(ps))

\* the texts made of at most n pieces of P
TextsOf(P, n) == {Flatten(ps) : ps \in UNION {[1..k -> P] : k \in 0..n}}

(* ---------------------------------------------------------------------- *)
(* extract_cpp_function                                                    *)
(* ---------------------------------------------------------------------- *)

\* A function name is a sequence of characters in which the one character
\* ":" stands for the separator "::".
IsQualified(name) == ":" \in Range(name)
SepPos(name) == Min({k \in DOMAIN name : name[k] = ":"})
ClassOf(name) == SubSeq(name, 1, SepPos(name) - 1)
MethodOf(name) == SubSeq(name, SepPos(name) + 1, Len(name))

\* re.escape(t) + r'\s*\(' matches at i
NameParenAt(s, i, t) ==
    /\ StartsWith(s, i, t)
    /\ LET j == SkipSpace(s, i + Len(t)) IN j <= Len(s) /\ s[j] = "("

\* re.escape(class_name) + r'::\s*' + re.escape(method_name) + r'\s*\('
\* matches at i
QualifiedAt(s, i, name) ==
    /\ StartsWith(s, i, ClassOf(name) \o <<":">>)
    /\ NameParenAt(s, SkipSpace(s, i + Len(ClassOf(name)) + 1), MethodOf(name))

\* [\w\s\*&]
InDeclClass(c) == IsWord(c) \/ IsSpace(c) \/ c \in {"*", "&"}

\* r'(?:[\w\s\*&]+\s+)?' + re.escape(function_name) + r'\s*\(' matches
\* at i: the name stands at i, or after a run of at least two characters of
\* the class that ends with whitespace
BareAt(s, i, name) ==
    \/ NameParenAt(s, i, name)
    \/ \E j \in (i + 2)..Len(s) :
          /\ \A k \in i..(j - 1) : InDeclClass(s[k])
          /\ IsSpace(s[j - 1])
          /\ NameParenAt(s, j, name)

HeaderAt(s, i, name) ==
    IF IsQualified(name) THEN QualifiedAt(s, i, name) ELSE BareAt(s, i, name)

\* header_match.start() of re.search, 0 when there is no match
header_start(s, name) ==
    IF \E i \in DOMAIN s : HeaderAt(s, i, name)
    THEN Min({i \in DOMAIN s : HeaderAt(s, i, name)})
    ELSE 0

\* content.rfind('\n', 0, start) + 1, or 0 (here 1) when there is none
line_start(s, start) ==
    IF \E k \in 1..(start - 1) : s[k] = "\n"
    THEN Max({k \in 1..(start - 1) : s[k] = "\n"}) + 1
    ELSE 1

\* content.find('{', start), 0 when there is none
brace_start(s, start) ==
    IF \E k \in start..Len(s) : s[k] = "{"
    THEN Min({k \in start..Len(s) : s[k] = "{"})
    ELSE 0

\* count after the characters b..i
Depth(s, b, i) ==
    Cardinality({k \in b..i : s[k] = "{"}) - Cardinality({k \in b..i : s[k] = "}"})

\* the position at which the loop returns: the first "}" that brings count
\* to 0; 0 when the loop ends without one
brace_end(s, b) ==
    IF \E i \in b..Len(s) : s[i] = "}" /\ Depth(s, b, i) = 0
    THEN Min({i \in b..Len(s) : s[i] = "}" /\ Depth(s, b, i) = 0})
    ELSE 0

extract_cpp_function(content, name) ==
    IF content = <<>> THEN None
    ELSE LET start == header_start(content, name) IN
         IF start = 0 THEN None
         ELSE LET b == brace_start(content, start) IN
              IF b = 0 THEN None
              ELSE LET e == brace_end(content, b) IN
                   IF e = 0 THEN None
                   ELSE strip(SubSeq(content, line_start(content, start), e))

\* the requested names: a bare name and a Class::method name
BareName == <<"f">>
QualifiedName == <<"C", ":", "f">>

\* the pieces a C++ text is made of: the requested name and single characters
CppPieces(name) == {name} \cup {<<c>> : c \in {"x", "(", "{", "}", "\n"}}

InitExtract ==
    /\ PipelineOff
    /\ op = "call"
    /\ \E name \in {BareName, QualifiedName} :
          \E content \in TextsOf(CppPieces(name), MaxPieces) :
              arg = [fn |-> "extract_cpp_function", content |-> content, name |-> name]
    /\ ret = <<>>

CallExtract ==
    /\ op = "call"
    /\ arg.fn = "extract_cpp_function"
    /\ op' = "return"
    /\ ret' = extract_cpp_function(arg.content, arg.name)
    /\ UNCHANGED <<pipelineVars, arg>>

SpecExtract == InitExtract /\ [][CallExtract]_vars

Returned(fn) == op = "return" /\ arg.fn = fn

\* the line holds the name, optional whitespace and "("
HoldsHeader(line, name) ==
    \E i \in DOMAIN line :
        IF IsQualified(name) THEN QualifiedAt(line, i, name) ELSE NameParenAt(line, i, name)

\* C12: a string that extract_cpp_function returns has as many "{" as "}"
\* and its first line holds the requested name followed by "(".
C12_BalancedWithHeader ==
    (Returned("extract_cpp_function") /\ ret # None) =>
        /\ CountChar(ret, "{") = CountChar(ret, "}")
        /\ HoldsHeader(FirstLine(ret), arg.name)

(* ---------------------------------------------------------------------- *)
(* find_function_in_file                                                   *)
(* ---------------------------------------------------------------------- *)

\* content.split('\n')
RECURSIVE SplitLines(_)
SplitLines(s) ==
    IF \A k \in DOMAIN s : s[k] # "\n"
    THEN <<s>>
    ELSE LET p == Min({k \in DOMAIN s : s[k] = "\n"}) IN
         <<SubSeq(s, 1, p - 1)>> \o SplitLines(SubSeq(s, p + 1, Len(s)))

\* '\n'.join(ls) of a list that is not empty
RECURSIVE Join(_)
Join(ls) ==
    IF Len(ls) = 1 THEN ls[1] ELSE ls[1] \o <<"\n">> \o Join(Tail(ls))

\* len(re.match(r'^(\s*)', line).group(1))
IndentLen(line) == SkipSpace(line, 1) - 1

\* not line.strip()
IsBlank(line) == strip(line) = <<>>

\* r'(?:\s*->.*?)?:' matches at p: a ":" at p, or whitespace, "->" and a
\* ":" later on the same line
ColonAt(s, p) ==
    \/ p <= Len(s) /\ s[p] = ":"
    \/ LET q == SkipSpace(s, p) IN
          /\ StartsWith(s, q, <<"-", ">">>)
          /\ \E r \in (q + 2)..Len(s) :
                s[r] = ":" /\ \A k \in (q + 2)..(r - 1) : s[k] # "\n"

\* rf'def\s+{re.escape(function_name)}\s*\([^)]*\)(?:\s*->.*?)?:' matches at i
DefAt(s, i, name) ==
    /\ StartsWith(s, i, <<"d", "e", "f">>)
    /\ LET j == SkipSpace(s, i + 3) IN
          /\ j > i + 3
          /\ NameParenAt(s, j, name)
          /\ LET k == SkipSpace(s, j + Len(name)) IN
                /\ \E c \in (k + 1)..Len(s) : s[c] = ")"
                /\ ColonAt(s, Min({c \in (k + 1)..Len(s) : s[c] = ")"}) + 1)

\* match.start() of re.search, 0 when there is no match
def_start(s, name) ==
    IF \E i \in DOMAIN s : DefAt(s, i, name)
    THEN Min({i \in DOMAIN s : DefAt(s, i, name)})
    ELSE 0

\* content[:start_pos].count('\n'), as an index into lines that starts at 1
start_line(s, start_pos) == CountChar(SubSeq(s, 1, start_pos - 1), "\n") + 1

\* the loop breaks at every line: a variant that tests the indentation of
\* blank lines too
breaks_on_blank(lines, start, base_indent_len, current_line) ==
    /\ IndentLen(lines[current_line]) <= base_indent_len
    /\ current_line > start + 1

\* the loop breaks at lines[current_line]
breaks(lines, start, base_indent_len, current_line) ==
    /\ ~IsBlank(lines[current_line])
    /\ IndentLen(lines[current_line]) <= base_indent_len
    /\ current_line > start + 1

\* the last line the loop appends
last_line(lines, start, base_indent_len) ==
    IF \E k \in (start + 1)..Len(lines) : breaks(lines, start, base_indent_len, k)
    THEN Min({k \in (start + 1)..Len(lines) : breaks(lines, start, base_indent_len, k)}) - 1
    ELSE Len(lines)

find_function_in_file(content, name) ==
    LET start_pos == def_start(content, name) IN
    IF start_pos = 0 THEN None
    ELSE LET lines == SplitLines(content)
             start == start_line(content, start_pos)
             base_indent_len == IndentLen(lines[start])
         IN  Join(SubSeq(lines, start, last_line(lines, start, base_indent_len)))

\* the header of a Python function
DefOf(name) == <<"d", "e", "f", " ">> \o name \o <<"(", ")", ":">>

\* the pieces a Python text is made of: the header of the requested
\* function, a statement, an indented statement, a blank and a newline
PyPieces(name) == {DefOf(name), <<"x">>, <<" ", "x">>, <<" ">>, <<"\n">>}

InitFind ==
    /\ PipelineOff
    /\ op = "call"
    /\ \E content \in TextsOf(PyPieces(BareName), MaxPieces) :
          arg = [fn |-> "find_function_in_file", content |-> content, name |-> BareName]
    /\ ret = <<>>

CallFind ==
    /\ op = "call"
    /\ arg.fn = "find_function_in_file"
    /\ op' = "return"
    /\ ret' = find_function_in_file(arg.content, arg.name)
    /\ UNCHANGED <<pipelineVars, arg>>

SpecFind == InitFind /\ [][CallFind]_vars

\* the lines of the file, the header line and its indentation
FileLines == SplitLines(arg.content)
HeaderLine == start_line(arg.content, def_start(arg.content, arg.name))
HeaderIndent == IndentLen(FileLines[HeaderLine])

\* the lines after the header that are not blank and not indented deeper
\* than the header
Terminators ==
    {k \in (HeaderLine + 1)..Len(FileLines) :
        ~IsBlank(FileLines[k]) /\ IndentLen(FileLines[k]) <= HeaderIndent}

\* the number of lines of the result
ResultLines == Len(SplitLines(ret))

\* C13: the result of find_function_in_file is the header line and the
\* lines after it up to, and without, the first non-blank line that is not
\* indented deeper than the header, wherever that line stands.
C13_EndsAtFirstOutdent ==
    (Returned("find_function_in_file") /\ ret # None /\ Terminators # {}) =>
        ret = Join(SubSeq(FileLines, HeaderLine, Min(Terminators) - 1))

\* line k follows a blank line, is indented deeper than the header and no
\* line between the header and k ends the body
DeeperAfterBlank(k) ==
    /\ k \in (HeaderLine + 2)..Len(FileLines)
    /\ IsBlank(FileLines[k - 1])
    /\ ~IsBlank(FileLines[k])
    /\ IndentLen(FileLines[k]) > HeaderIndent
    /\ \A j \in (HeaderLine + 1)..(k - 1) : j \notin Terminators

\* C14: a body line indented deeper than the header that follows blank
\* lines is part of the result: blank lines never end the body.
C14_BlankLinesKept ==
    (Returned("find_function_in_file") /\ ret # None) =>
        \A k \in DOMAIN FileLines :
            DeeperAfterBlank(k) =>
                /\ ResultLines >= k - HeaderLine + 1
                /\ SplitLines(ret)[k - HeaderLine + 1] = FileLines[k]

C14_Witness ==
    /\ Returned("find_function_in_file")
    /\ ret # None
    /\ \E k \in DOMAIN FileLines :
          /\ DeeperAfterBlank(k)
          /\ FileLines[k - 1] = <<>>
          /\ IndentLen(FileLines[k - 2]) > HeaderIndent
          /\ ~IsBlank(FileLines[k - 2])

(* ---------------------------------------------------------------------- *)
(* extract_modified_functions                                              *)
(* ---------------------------------------------------------------------- *)

\* In a patch text the one character "@" stands for a hunk marker
\* "@@ -a,b +c,d @@" and, as in function names, ":" stands for "::".

\* largest number of lines of a generated patch text
MaxLines == 3

\* no match of a pattern
NoMatch == <<>>

\* [\w\s:*&<>]
InSigClass(c) == IsWord(c) \/ IsSpace(c) \/ c \in {":", "*", "&", "<", ">"}

\* the end of a greedy \w* that starts at i: the first position from i on
\* that holds no word character
WordEnd(s, i) ==
    IF \E j \in i..Len(s) : ~IsWord(s[j])
    THEN Min({j \in i..Len(s) : ~IsWord(s[j])})
    ELSE Len(s) + 1

\* the start of the run of word characters that ends before position c
WordStart(s, c) ==
    IF \E j \in 1..(c - 1) : ~IsWord(s[j])
    THEN Max({j \in 1..(c - 1) : ~IsWord(s[j])}) + 1
    ELSE 1

\* r'\s+(\w+)::(\w+)\s*\(' matches with its "::" at c: whitespace, a word,
\* the separator, a word, optional whitespace and "("
SignatureAt(s, c) ==
    /\ c \in DOMAIN s
    /\ s[c] = ":"
    /\ WordStart(s, c) < c
    /\ WordStart(s, c) >= 2
    /\ IsSpace(s[WordStart(s, c) - 1])
    /\ WordEnd(s, c + 1) > c + 1
    /\ LET p == SkipSpace(s, WordEnd(s, c + 1)) IN p <= Len(s) /\ s[p] = "("

\* groups 2 and 3 of the match with its "::" at c
GroupsAt(s, c) == <<SubSeq(s, WordStart(s, c), c - 1), SubSeq(s, c + 1, WordEnd(s, c + 1) - 1)>>

\* f"{class_name}::{func_name}"
full_name(groups) == groups[1] \o <<":">> \o groups[2]

\* re.search(r'([\w\s:*&<>]+)?\s+(\w+)::(\w+)\s*\(', line): groups 2 and 3
\* of the leftmost match
func_def_match(line) ==
    IF \E c \in DOMAIN line : SignatureAt(line, c)
    THEN GroupsAt(line, Min({c \in DOMAIN line : SignatureAt(line, c)}))
    ELSE NoMatch

\* re.search(r'^\s*([\w\s:*&<>]+)\s+(\w+)\s*\([^)]*\)', line): group 2.
\* Everything before the first "(" is of the class, so the name is the word
\* before the first "(", after whitespace and at least one more character.
standalone_func_match(line) ==
    IF \A k \in DOMAIN line : line[k] # "(" THEN NoMatch
    ELSE LET p == Min({k \in DOMAIN line : line[k] = "("}) IN
         IF \A k \in 1..(p - 1) : IsSpace(line[k]) THEN NoMatch
         ELSE LET e == Max({k \in 1..(p - 1) : ~IsSpace(line[k])})
                  h == WordStart(line, e + 1)
              IN  IF /\ h <= e
                     /\ h >= 3
                     /\ IsSpace(line[h - 1])
                     /\ \A k \in 1..(h - 1) : InSigClass(line[k])
                     /\ \E k \in (p + 1)..Len(line) : line[k] = ")"
                  THEN SubSeq(line, h, e)
                  ELSE NoMatch

\* line.startswith(mark)
starts_with(line, mark) == Len(line) >= 1 /\ line[1] = mark

\* line[1:].strip()
content_line(line) == strip(Tail(line))

Keywords ==
    {<<"i", "f">>, <<"w", "h", "i", "l", "e">>, <<"f", "o", "r">>,
     <<"s", "w", "i", "t", "c", "h">>}

\* no name is excluded: a variant without the list of keywords
rejected_none(func_name) == FALSE

\* func_name in ['if', 'while', 'for', 'switch']
rejected(func_name) == func_name \in Keywords

\* 1. the names taken from the hunk headers: re.findall of
\* r'@@ -\d+,\d+ \+\d+,\d+ @@(?:\s+(?:[\w\s:*&<>]+))?\s+(\w+)::(\w+)\s*\('
\* over the whole text. Between the marker and the class name stands a run
\* of characters of the class that begins and ends with whitespace.
header_names(text) ==
    {full_name(GroupsAt(text, c)) :
        c \in {c \in DOMAIN text :
                 /\ SignatureAt(text, c)
                 /\ \E a \in 1..(WordStart(text, c) - 2) :
                       /\ text[a] = "@"
                       /\ IsSpace(text[a + 1])
                       /\ \A k \in (a + 1)..(WordStart(text, c) - 1) :
                             InSigClass(text[k])}}

\* 2. the names taken from one deleted line
deleted_line_names(line) ==
    LET content == content_line(line) IN
    IF ~starts_with(line, "-") \/ content = <<>> THEN {}
    ELSE (IF func_def_match(content) # NoMatch
          THEN {full_name(func_def_match(content))} ELSE {})
         \cup
         (IF /\ standalone_func_match(content) # NoMatch
             /\ ":" \notin Range(content)
             /\ ~rejected(standalone_func_match(content))
          THEN {standalone_func_match(content)} ELSE {})

\* 3. the names taken from a deleted line directly followed by an added line
rename_names(lines) ==
    {full_name(func_def_match(content_line(lines[i]))) :
        i \in {i \in 1..(Len(lines) - 1) :
                 /\ starts_with(lines[i], "-")
                 /\ starts_with(lines[i + 1], "+")
                 /\ LET old == func_def_match(content_line(lines[i]))
                        new == func_def_match(content_line(lines[i + 1]))
                    IN  /\ old # NoMatch
                        /\ new # NoMatch
                        /\ old[1] = new[1]
                        /\ old[2] # new[2]}}

extract_modified_functions(patch_text) ==
    LET lines == SplitLines(patch_text) IN
    header_names(patch_text)
        \cup UNION {deleted_line_names(lines[i]) : i \in DOMAIN lines}
        \cup rename_names(lines)

\* the lines a patch text is made of: hunk headers without and with a
\* context, deleted, added and unchanged lines
PatchLines ==
    {<<"@">>,
     <<"@", " ", "C", ":", "o", "(", ")">>,
     <<"@", " ", "v", " ", "C", ":", "o", "(", ")">>,
     <<"@", " ", "o", "(", ")">>,
     <<"@", " ", "v", " ", "o", "(", ")">>,
     <<"-", "v", " ", "C", ":", "o", "(", ")">>,
     <<"-", "C", ":", "o", "(", ")">>,
     <<"-", " ", "v", " ", "C", ":", "o", "(", ")">>,
     <<"+", "v", " ", "C", ":", "n", "(", ")">>,
     <<"+", "C", ":", "n", "(", ")">>,
     <<"-", "v", " ", "o", "(", ")">>,
     <<"+", "v", " ", "n", "(", ")">>,
     <<"-", "i", "f", " ", "(", "x", ")">>,
     <<"-", "e", "l", "s", "e", " ", "i", "f", " ", "(", "x", ")">>,
     <<" ", "v", " ", "C", ":", "o", "(", ")">>,
     <<"-">>}

\* the patch texts of at most n lines
PatchTexts(n) == {Join(ls) : ls \in UNION {[1..k -> PatchLines] : k \in 1..n}}

InitModified ==
    /\ PipelineOff
    /\ op = "call"
    /\ \E text \in PatchTexts(MaxLines) :
          arg = [fn |-> "extract_modified_functions", patch_text |-> text]
    /\ ret = <<>>

CallModified ==
    /\ op = "call"
    /\ arg.fn = "extract_modified_functions"
    /\ op' = "return"
    /\ ret' = extract_modified_functions(arg.patch_text)
    /\ UNCHANGED <<pipelineVars, arg>>

SpecModified == InitModified /\ [][CallModified]_vars

\* the lines of the patch
PatchOf == SplitLines(arg.patch_text)

\* the names of the hunks
OldMethod == <<"C", ":", "o">>
NewMethod == <<"C", ":", "n">>
BareOld == <<"o">>

\* a signature of the function: its name and "(", with or without a return
\* type before it
Signatures(name) ==
    {name \o <<"(", ")">>, <<"v", " ">> \o name \o <<"(", ")">>}

\* line i is a line of the kind mark that holds a signature of the function
SignatureLine(i, mark, name) ==
    /\ i \in DOMAIN PatchOf
    /\ starts_with(PatchOf[i], mark)
    /\ content_line(PatchOf[i]) \in Signatures(name)

\* a name without the separator
IsBare(name) == ":" \notin Range(name)

\* C15: when a deleted line with the signature of C::o is directly followed
\* by an added line with the signature of C::n, the result holds C::o; and
\* when every deleted line holds "::", the result holds no bare name.
C15_RenameKeepsQualifiedName ==
    Returned("extract_modified_functions") =>
        /\ \A i \in DOMAIN PatchOf :
              (SignatureLine(i, "-", OldMethod) /\ SignatureLine(i + 1, "+", NewMethod))
                  => OldMethod \in ret
        /\ (\A i \in DOMAIN PatchOf :
               starts_with(PatchOf[i], "-") => ":" \in Range(PatchOf[i]))
              => \A name \in ret : ~IsBare(name)

\* C16: the result of extract_modified_functions holds none of the names
\* if, while, for, switch.
C16_NoKeywordNames ==
    Returned("extract_modified_functions") => ret \cap Keywords = {}

\* a deleted line on which the pattern of a standalone function finds the
\* name if
C16_Witness ==
    /\ Returned("extract_modified_functions")
    /\ \E i \in DOMAIN PatchOf :
          /\ starts_with(PatchOf[i], "-")
          /\ standalone_func_match(content_line(PatchOf[i])) = <<"i", "f">>
    /\ ret \cap Keywords = {}

\* a hunk header whose context is a signature of the function
HeaderWith(name) ==
    \E i \in DOMAIN PatchOf :
        \E sig \in Signatures(name) : PatchOf[i] = <<"@", " ">> \o sig

\* C17: a hunk header whose context ends in a function token contributes
\* the name of that function, C::o when the token is qualified and o when
\* it is not.
C17_HeaderContextName ==
    Returned("extract_modified_functions") =>
        /\ HeaderWith(OldMethod) => OldMethod \in ret
        /\ HeaderWith(BareOld) => BareOld \in ret

(* ---------------------------------------------------------------------- *)
(* download_file_from_commit and download_github_file: the requests made   *)
(* ---------------------------------------------------------------------- *)

\* the value False
PyFalse == <<"False">>

\* an exception that leaves the function
Raised == <<"raised">>

\* requests.get raises (no connection, timeout): there is no status
NoResponse == 0

\* the answers of the server: a status code, or none
Statuses == {200, 403, 404}
Answers == Statuses \cup {NoResponse}

\* the files asked for
Targets ==
    [owner : {"PX4"}, repo : {"PX4-Autopilot"}, commit : {"c1", "c2"},
     path : {"a.cpp", "b.cpp"}]

Fetchers == {"download_file_from_commit", "download_github_file"}

\* what each function returns when it has no content
no_content(fn) == IF fn = "download_file_from_commit" THEN None ELSE PyFalse

\* what each function returns when it has the content: the text, or the
\* path of the file the text was saved to
has_content(fn) ==
    IF fn = "download_file_from_commit" THEN <<"text">> ELSE <<"output_file">>

\* the except clause is missing: a variant in which the exception leaves
\* the function
on_exception_raise(fn) == Raised

\* except Exception: print and return
on_exception(fn) == no_content(fn)

\* the raw request is made whatever the first answer was
always_fallback(status) == TRUE

\* response.status_code != 200
needs_fallback(status) == status # 200

Request(endpoint, target) == [endpoint |-> endpoint, target |-> target]

InitFetch ==
    /\ PipelineOff
    /\ op = "call"
    /\ \E fn \in Fetchers, target \in Targets, located \in BOOLEAN,
          contents \in Answers, raw \in Answers :
          arg = [fn |-> fn, target |-> target, located |-> located,
                 contents |-> contents, raw |-> raw]
    /\ ret = [requests |-> <<>>, value |-> <<>>]

\* the steps before the first request for the content: the commit lookup
\* and the parsing of its html_url (download_file_from_commit), the parsing
\* of the url (download_github_file); when they fail the function returns
Locate ==
    /\ op = "call"
    /\ arg.fn \in Fetchers
    /\ IF arg.located
       THEN op' = "located" /\ ret' = ret
       ELSE op' = "return" /\ ret' = [ret EXCEPT !.value = no_content(arg.fn)]
    /\ UNCHANGED <<pipelineVars, arg>>

\* requests.get of the contents endpoint
RequestContents ==
    /\ op = "located"
    /\ LET asked == Append(ret.requests, Request("contents", arg.target)) IN
       IF arg.contents = NoResponse
       THEN op' = "return"
            /\ ret' = [requests |-> asked, value |-> on_exception(arg.fn)]
       ELSE op' = (IF needs_fallback(arg.contents) THEN "fallback" ELSE "answered")
            /\ ret' = [ret EXCEPT !.requests = asked]
    /\ UNCHANGED <<pipelineVars, arg>>

\* requests.get of the raw endpoint and the test of its status
RequestRaw ==
    /\ op = "fallback"
    /\ LET asked == Append(ret.requests, Request("raw", arg.target)) IN
       IF arg.raw = NoResponse
       THEN op' = "return"
            /\ ret' = [requests |-> asked, value |-> on_exception(arg.fn)]
       ELSE IF arg.raw # 200
       THEN op' = "return"
            /\ ret' = [requests |-> asked, value |-> no_content(arg.fn)]
       ELSE op' = "answered"
            /\ ret' = [ret EXCEPT !.requests = asked]
    /\ UNCHANGED <<pipelineVars, arg>>

\* the content is returned
ReturnContent ==
    /\ op = "answered"
    /\ op' = "return"
    /\ ret' = [ret EXCEPT !.value = has_content(arg.fn)]
    /\ UNCHANGED <<pipelineVars, arg>>

NextFetch == Locate \/ RequestContents \/ RequestRaw \/ ReturnContent

SpecFetch == InitFetch /\ [][NextFetch]_vars

\* every raw request follows a contents request for the same file that was
\* answered with a status other than 200
RawOnlyAfterContentsFailed ==
    \A i \in DOMAIN ret.requests :
        ret.requests[i].endpoint = "raw" =>
            /\ i > 1
            /\ ret.requests[i - 1] = Request("contents", ret.requests[i].target)
            /\ arg.contents \in Statuses \ {200}

\* both requests were made and neither was answered with the content
BothFailed ==
    /\ op = "return"
    /\ Len(ret.requests) = 2
    /\ arg.raw # 200

Resolvers == {"get_previous_commit_info", "get_previous_commit_hash"}

\* the answers that are failures of the resolution: an error status, or
\* no response
FailedStatuses == {403, 404, 500, NoResponse}

\* the answers to the commit request: the commit with the number of its
\* parents, or a failure
CommitAnswers ==
    [status : {200}, parents : 0..2] \cup [status : FailedStatuses, parents : {0}]

\* what each function returns when it has no parent to give:
\* (None, None) and None
no_parent(fn) == IF fn = "get_previous_commit_info" THEN <<None, None>> ELSE None

\* parents[0]["sha"] and parents[0]["url"]
first_parent(fn, commit) ==
    IF fn = "get_previous_commit_info"
    THEN <<<<"parent of", commit>>, <<"url of parent of", commit>>>>
    ELSE <<"parent of", commit>>

InitResolve ==
    /\ PipelineOff
    /\ op = "call"
    /\ \E fn \in Resolvers, target \in Targets, answer \in CommitAnswers,
          matched \in BOOLEAN :
          /\ fn = "get_previous_commit_hash" => matched
          /\ arg = [fn |-> fn, target |-> target, answer |-> answer,
                    matched |-> matched]
    /\ ret = <<>>

\* the test of the blob_url (get_previous_commit_info only), requests.get
\* of the commit and the test of its status
RequestCommit ==
    /\ op = "call"
    /\ arg.fn \in Resolvers
    /\ IF ~arg.matched \/ arg.answer.status # 200
       THEN op' = "return" /\ ret' = no_parent(arg.fn)
       ELSE op' = "commit_data" /\ ret' = ret
    /\ UNCHANGED <<pipelineVars, arg>>

\* the parents of the commit are read
ReadParents ==
    /\ op = "commit_data"
    /\ op' = "return"
    /\ ret' = IF arg.answer.parents = 0
              THEN no_parent(arg.fn)
              ELSE first_parent(arg.fn, arg.target.commit)
    /\ UNCHANGED <<pipelineVars, arg>>

NextResolve == RequestCommit \/ ReadParents

SpecResolve == InitResolve /\ [][NextResolve]_vars

\* C19: for a commit without parents the resolver returns the absent
\* result, and after a network error or an error status it returns
\* something else, by which the caller knows that the resolution failed.
C19_FailureDistinguishable ==
    (op = "return" /\ arg.fn \in Resolvers) =>
        /\ (arg.matched /\ arg.answer.status = 200 /\ arg.answer.parents = 0)
              => ret = no_parent(arg.fn)
        /\ (arg.matched /\ arg.answer.status \in FailedStatuses)
              => ret # no_parent(arg.fn)

(* ---------------------------------------------------------------------- *)
(* parse_github_url and the raw url built from its result                  *)
(* ---------------------------------------------------------------------- *)

\* In a url the scheme and the host are one element of the sequence; what
\* follows them is a sequence of characters.
RawHost == "https://raw.githubusercontent.com/"
GithubHost == "https://github.com/"

\* the dictionary that parse_github_url returns
Info(owner, repo, commit_hash, file_path) ==
    [raised |-> FALSE, owner |-> owner, repo |-> repo,
     commit_hash |-> commit_hash, file_path |-> file_path]

\* raise ValueError
ValueError ==
    [raised |-> TRUE, owner |-> <<>>, repo |-> <<>>, commit_hash |-> <<>>,
     file_path |-> <<>>]

\* the escapes that occur in the urls and the characters they stand for
Escapes == {<<"2", "F">>, <<"2", "5">>, <<"0", "A">>}
Unescaped(hex) ==
    IF hex = <<"2", "F">> THEN "/" ELSE IF hex = <<"2", "5">> THEN "%" ELSE "\n"

\* urllib.parse.unquote: every "%" with two hexadecimal digits after it is
\* replaced, in one pass from left to right
RECURSIVE unquote(_)
unquote(t) ==
    IF t = <<>> THEN <<>>
    ELSE IF t[1] = "%" /\ Len(t) >= 3 /\ <<t[2], t[3]>> \in Escapes
    THEN <<Unescaped(<<t[2], t[3]>>)>> \o unquote(SubSeq(t, 4, Len(t)))
    ELSE <<t[1]>> \o unquote(Tail(t))

\* the end of ([^/]+)/ that starts at i: the position of the first "/" from
\* i on, 0 when there is none
SlashAfter(s, i) ==
    IF \E j \in i..Len(s) : s[j] = "/"
    THEN Min({j \in i..Len(s) : s[j] = "/"})
    ELSE 0

\* (.*) at the end of a pattern without re.DOTALL: the rest of the line
RestOfLine(s, i) == FirstLine(SubSeq(s, i, Len(s)))

\* "raw.githubusercontent.com" in url
is_raw_form(url) == RawHost \in Range(url)

\* re.match of r"https://raw\.githubusercontent\.com/([^/]+)/([^/]+)/([^/]+)/(.*)"
parse_raw(url) ==
    LET a == SlashAfter(url, 2)
        b == SlashAfter(url, a + 1)
        c == SlashAfter(url, b + 1)
    IN  IF url # <<>> /\ url[1] = RawHost /\ a > 2 /\ b > a + 1 /\ c > b + 1
        THEN Info(SubSeq(url, 2, a - 1), SubSeq(url, a + 1, b - 1),
                  SubSeq(url, b + 1, c - 1), RestOfLine(url, c + 1))
        ELSE ValueError

\* re.match of r"https://github\.com/([^/]+)/([^/]+)/raw/([^/]+)/(.*)" and
\* the unquoting of the path
parse_github(url) ==
    LET a == SlashAfter(url, 2)
        b == SlashAfter(url, a + 1)
        c == SlashAfter(url, b + 5)
    IN  IF /\ url # <<>> /\ url[1] = GithubHost /\ a > 2 /\ b > a + 1
           /\ StartsWith(url, b + 1, <<"r", "a", "w", "/">>)
           /\ c > b + 5
        THEN Info(SubSeq(url, 2, a - 1), SubSeq(url, a + 1, b - 1),
                  SubSeq(url, b + 5, c - 1), unquote(RestOfLine(url, c + 1)))
        ELSE ValueError

parse_github_url(url) ==
    IF is_raw_form(url) THEN parse_raw(url) ELSE parse_github(url)

\* f"https://raw.githubusercontent.com/{owner}/{repo}/{commit_hash}/{file_path}"
raw_url(info) ==
    <<RawHost>> \o info.owner \o <<"/">> \o info.repo \o <<"/">>
        \o info.commit_hash \o <<"/">> \o info.file_path

\* the pieces an escaped path is made of
PathPieces ==
    {<<"x">>, <<"/">>, <<"%", "2", "F">>, <<"%", "2", "5">>, <<"%", "0", "A">>}

\* the urls of both forms for owner o, repository r and commit c
UrlOf(host, path) ==
    IF host = RawHost
    THEN <<RawHost, "o", "/", "r", "/", "c", "/">> \o path
    ELSE <<GithubHost, "o", "/", "r", "/", "r", "a", "w", "/", "c", "/">> \o path

InitRoundTrip ==
    /\ PipelineOff
    /\ op = "call"
    /\ \E host \in {RawHost, GithubHost} :
          \E path \in TextsOf(PathPieces, MaxPieces) \ {<<>>} :
              arg = [fn |-> "parse_github_url", host |-> host, path |-> path,
                     url |-> UrlOf(host, path)]
    /\ ret = <<>>

\* the url is parsed
ParseUrl ==
    /\ op = "call"
    /\ arg.fn = "parse_github_url"
    /\ op' = "parsed"
    /\ ret' = [first |-> parse_github_url(arg.url)]
    /\ UNCHANGED <<pipelineVars, arg>>

\* a url is built from the four components
BuildRawUrl ==
    /\ op = "parsed"
    /\ ~ret.first.raised
    /\ op' = "built"
    /\ ret' = [first |-> ret.first, url |-> raw_url(ret.first)]
    /\ UNCHANGED <<pipelineVars, arg>>

\* the url that was built is parsed
ParseBuiltUrl ==
    /\ op = "built"
    /\ op' = "return"
    /\ ret' = [first |-> ret.first, url |-> ret.url,
               second |-> parse_github_url(ret.url)]
    /\ UNCHANGED <<pipelineVars, arg>>

NextRoundTrip == ParseUrl \/ BuildRawUrl \/ ParseBuiltUrl

SpecRoundTrip == InitRoundTrip /\ [][NextRoundTrip]_vars

\* C20: parsing a url, building a url from the four components and parsing
\* that url gives the four components of the first parsing.
C20_RoundTrip ==
    (op = "return" /\ arg.fn = "parse_github_url") => ret.second = ret.first

(* ---------------------------------------------------------------------- *)
(* analyze_json_patches: one PR record                                     *)
(* ---------------------------------------------------------------------- *)

PatchFiles == {"a.cpp", "b.cpp"}

\* the entries of pr['patches']: without the key 'patch', with an empty
\* patch, with a patch text
PatchInfos ==
    {[has_patch |-> FALSE, patch |-> <<>>]}
        \cup [has_patch : {TRUE}, patch : {<<>>} \cup PatchTexts(1)]

\* 'patch' in patch_info and patch_info['patch']
has_patch_text(patch_info) == patch_info.has_patch /\ patch_info.patch # <<>>

\* the names found in the patch of one file
functions_of(patches, filename) ==
    IF has_patch_text(patches[filename])
    THEN extract_modified_functions(patches[filename].patch)
    ELSE {}

\* file_modified_functions after the loop over the files
file_modified_functions(patches) ==
    [filename \in {f \in DOMAIN patches : functions_of(patches, f) # {}} |->
        functions_of(patches, filename)]

\* only the names of the last file are kept: a variant that assigns where
\* the code updates
all_of_last_file(patches) ==
    IF DOMAIN patches = {} THEN {}
    ELSE functions_of(patches, CHOOSE f \in DOMAIN patches :
                                  \A g \in DOMAIN patches : g = f \/ g = "a.cpp")

\* all_modified_functions after the loop over the files
all_modified_functions(patches) ==
    UNION {functions_of(patches, f) : f \in DOMAIN patches}

InitAnalyze ==
    /\ PipelineOff
    /\ op = "call"
    /\ \E files \in SUBSET PatchFiles : \E patches \in [files -> PatchInfos] :
          arg = [fn |-> "analyze_json_patches", number |-> 1, patches |-> patches]
    /\ ret = <<>>

\* the body of the loop for one PR: the PR is skipped when it has no
\* patches, else its modified_functions field is written
AnalyzePR ==
    /\ op = "call"
    /\ arg.fn = "analyze_json_patches"
    /\ op' = "return"
    /\ ret' = IF DOMAIN arg.patches = {}
              THEN [skipped |-> TRUE, all |-> {}, by_file |-> <<>>]
              ELSE [skipped |-> FALSE,
                    all |-> all_modified_functions(arg.patches),
                    by_file |-> file_modified_functions(arg.patches)]
    /\ UNCHANGED <<pipelineVars, arg>>

SpecAnalyze == InitAnalyze /\ [][AnalyzePR]_vars

\* C21: after a PR was processed, a name is in modified_functions.all
\* exactly when it is in the list of a file of modified_functions.by_file.
C21_AllEqualsByFile ==
    (Returned("analyze_json_patches") /\ ~ret.skipped) =>
        ret.all = UNION {ret.by_file[f] : f \in DOMAIN ret.by_file}

\* two files that contribute different names
C21_Witness ==
    /\ Returned("analyze_json_patches")
    /\ ~ret.skipped
    /\ DOMAIN ret.by_file = PatchFiles
    /\ ret.by_file["a.cpp"] # ret.by_file["b.cpp"]
    /\ ret.all = ret.by_file["a.cpp"] \cup ret.by_file["b.cpp"]

(* ---------------------------------------------------------------------- *)
(* merge_pr_results                                                        *)
(* ---------------------------------------------------------------------- *)

\* longest list given to merge_pr_results
MaxMerge == 2

\* a field that a record does not have
Absent == "absent"

\* the PR records: number 0 is a record without the key 'number'; the title
\* is written by the search, the patches by a later stage
MergeRecords ==
    [number : 0..2, title : {"t1", "t2"}, patches : {Absent, "p1"}]

\* the lists of records in which no PR number occurs twice
MergeLists ==
    {l \in UNION {[1..k -> MergeRecords] : k \in 0..MaxMerge} :
        \A i, j \in DOMAIN l : (i # j /\ l[i].number # 0) => l[i].number # l[j].number}

\* pr_map[pr['number']] = pr, for a dictionary kept as the list of its
\* values in insertion order
put_record(pr_map, pr) ==
    IF pr.number = 0 THEN pr_map
    ELSE IF \E i \in DOMAIN pr_map : pr_map[i].number = pr.number
    THEN [i \in DOMAIN pr_map |->
             IF pr_map[i].number = pr.number THEN pr ELSE pr_map[i]]
    ELSE Append(pr_map, pr)

\* for pr in pr_list: pr_map[pr['number']] = pr
RECURSIVE put_all(_, _)
put_all(pr_map, pr_list) ==
    IF pr_list = <<>> THEN pr_map
    ELSE put_all(put_record(pr_map, Head(pr_list)), Tail(pr_list))

merge_pr_results(new_prs, existing_prs) ==
    put_all(put_all(<<>>, existing_prs), new_prs)

InitMerge ==
    /\ PipelineOff
    /\ op = "call"
    /\ \E new_prs \in MergeLists, existing_prs \in MergeLists :
          /\ \A i \in DOMAIN new_prs : new_prs[i].patches = Absent
          /\ arg = [fn |-> "merge_pr_results", new_prs |-> new_prs,
                 existing_prs |-> existing_prs]
    /\ ret = <<>>

CallMerge ==
    /\ op = "call"
    /\ arg.fn = "merge_pr_results"
    /\ op' = "return"
    /\ ret' = merge_pr_results(arg.new_prs, arg.existing_prs)
    /\ UNCHANGED <<pipelineVars, arg>>

SpecMerge == InitMerge /\ [][CallMerge]_vars

\* the records in the order in which they were written, and the value
\* written last to a field of a PR
Written == arg.existing_prs \o arg.new_prs
LastWritten(n, field) ==
    LET has == {i \in DOMAIN Written :
                   Written[i].number = n /\ Written[i][field] # Absent}
    IN  IF has = {} THEN Absent ELSE Written[Max(has)][field]

\* C22: the merged list holds exactly one record for every PR number of
\* either list, and each field of that record has the value written last
\* to it, so a field that only the existing record has is kept.
C22_MergeKeepsFields ==
    Returned("merge_pr_results") =>
        \A n \in {Written[i].number : i \in DOMAIN Written} \ {0} :
            /\ Cardinality({i \in DOMAIN ret : ret[i].number = n}) = 1
            /\ \A i \in DOMAIN ret :
                  ret[i].number = n =>
                      /\ ret[i].title = LastWritten(n, "title")
                      /\ ret[i].patches = LastWritten(n, "patches")

\* ---------------------------------------------------------------------
\* The request loops: search_navigator_prs and search_from_issues_api
\* (a while loop over pages), verify_navigator_changes and
\* get_navigator_patches (a for loop of three attempts), and
\* update_json_with_patches, which stores what get_navigator_patches
\* returns.  One action is one pass through the loop body; the answer of
\* the network to the request of that pass is chosen by the environment.

RetryAttempts == 3
IssuesMaxPages == 10
MaxPage == 3
MaxRequests == 5

SearchLoops == {"search_navigator_prs", "search_from_issues_api"}
FilesLoops == {"verify_navigator_changes", "get_navigator_patches",
               "update_json_with_patches"}

\* 200 with 100 items, 200 with fewer, 403 rate limit whose reset time
\* lies ahead, 403 rate limit whose reset time has passed, another
\* status, an exception (connection error, timeout)
SearchAnswers == {"page_full", "page_last", "limit_wait", "limit_expired",
                  "error", "raise"}
\* 200 listing a navigator file, 200 listing none, 403, another status,
\* an exception
FilesAnswers == {"navigator", "other_files", "limit", "error", "raise"}

\* the state of a call: the page or attempt it is at, the exceptions in a
\* row, the rate-limit answers and whether any other failure was seen,
\* how it ended, what it returned, the PR's patches field and the run
LoopState(patches, nth) ==
    [page |-> 1, attempt |-> 0, raised |-> 0, limited |-> 0,
     other |-> FALSE, outcome |-> "running", result |-> "none",
     patches |-> patches, run |-> nth]

break(s, outcome) == [s EXCEPT !.outcome = outcome, !.raised = 0]

search_pass(s, max_pages, answer) ==
    CASE answer = "raise" ->
            [s EXCEPT !.raised = @ + 1, !.other = TRUE]
      [] answer = "limit_wait" ->
            [s EXCEPT !.limited = @ + 1, !.raised = 0]
      [] answer = "limit_expired" ->
            break([s EXCEPT !.limited = @ + 1], "abandoned")
      [] answer = "error" ->
            break([s EXCEPT !.other = TRUE], "abandoned")
      [] answer = "page_last" -> break(s, "complete")
      [] answer = "page_full" ->
            IF s.page + 1 <= max_pages
            THEN [s EXCEPT !.page = @ + 1, !.raised = 0]
            ELSE break([s EXCEPT !.page = @ + 1], "complete")

\* what the function returns when the file list could not be fetched
failure_result(fn) == IF fn = "verify_navigator_changes" THEN "False" ELSE "empty"

parsed_result(fn, answer) ==
    IF fn = "verify_navigator_changes"
    THEN (IF answer = "navigator" THEN "True" ELSE "False")
    ELSE (IF answer = "navigator" THEN "p1" ELSE "empty")

\* the for loop ends after RetryAttempts passes: its else branch returns
next_attempt(s, fn) ==
    IF s.attempt + 1 < RetryAttempts
    THEN [s EXCEPT !.attempt = @ + 1]
    ELSE [s EXCEPT !.attempt = @ + 1, !.outcome = "failed",
                   !.result = failure_result(fn)]

files_pass(s, fn, answer) ==
    CASE answer \in {"navigator", "other_files"} ->
            [s EXCEPT !.outcome = "ok", !.raised = 0,
                      !.result = parsed_result(fn, answer)]
      [] answer = "limit" ->
            next_attempt([s EXCEPT !.limited = @ + 1, !.raised = 0], fn)
      [] answer = "error" ->
            [s EXCEPT !.outcome = "failed", !.other = TRUE, !.raised = 0,
                      !.result = failure_result(fn)]
      [] answer = "raise" ->
            next_attempt([s EXCEPT !.raised = @ + 1, !.other = TRUE], fn)

\* update_json_with_patches, lines 139-157: a true value is stored, and
\* so is the empty dictionary
stored_patches(patches) == IF patches # "empty" THEN patches ELSE "empty"

LoopCalls ==
    [fn : {"search_navigator_prs"}, max_pages : 1..MaxPage, patches : {Absent}]
    \cup [fn : {"search_from_issues_api"}, max_pages : {IssuesMaxPages},
          patches : {Absent}]
    \cup [fn : {"verify_navigator_changes", "get_navigator_patches"},
          max_pages : {1}, patches : {Absent}]
    \cup [fn : {"update_json_with_patches"}, max_pages : {1},
          patches : {Absent, "empty", "p1"}]

InitLoops ==
    /\ PipelineOff
    /\ op = "call"
    /\ arg \in LoopCalls
    /\ ret = LoopState(arg.patches, 1)

Requests(s) == s.page - 1 + s.attempt + s.raised + s.limited

\* line 128: a PR that has a patches field is skipped
EnterLoop ==
    /\ op = "call"
    /\ op' = IF arg.fn = "update_json_with_patches" /\ ret.patches # Absent
             THEN "return" ELSE "loop"
    /\ ret' = IF arg.fn = "update_json_with_patches" /\ ret.patches # Absent
              THEN [ret EXCEPT !.outcome = "skipped"] ELSE ret
    /\ UNCHANGED <<pipelineVars, arg>>

SearchPass ==
    /\ op = "loop"
    /\ arg.fn \in SearchLoops
    /\ Requests(ret) < MaxRequests
    /\ \E answer \in SearchAnswers :
          /\ ret' = search_pass(ret, arg.max_pages, answer)
          /\ op' = IF ret'.outcome = "running" THEN "loop" ELSE "return"
    /\ UNCHANGED <<pipelineVars, arg>>

FilesPass ==
    /\ op = "loop"
    /\ arg.fn \in FilesLoops
    /\ \E answer \in FilesAnswers :
          /\ ret' = files_pass(ret, arg.fn, answer)
          /\ op' = CASE ret'.outcome = "running" -> "loop"
                     [] arg.fn = "update_json_with_patches" -> "fetched"
                     [] OTHER -> "return"
    /\ UNCHANGED <<pipelineVars, arg>>

StorePatches ==
    /\ op = "fetched"
    /\ ret' = [ret EXCEPT !.patches = stored_patches(ret.result)]
    /\ op' = "return"
    /\ UNCHANGED <<pipelineVars, arg>>

\* the script is run again on the file the last run wrote
RunAgain ==
    /\ op = "return"
    /\ arg.fn = "update_json_with_patches"
    /\ ret.run < MaxRuns
    /\ ret' = LoopState(ret.patches, ret.run + 1)
    /\ op' = "call"
    /\ UNCHANGED <<pipelineVars, arg>>

NextLoops == EnterLoop \/ SearchPass \/ FilesPass \/ StorePatches \/ RunAgain

SpecLoops == InitLoops /\ [][NextLoops]_vars

\* C23: a request that keeps failing with an exception or a timeout is
\* repeated a bounded number of times: no call sees more exceptions in a
\* row than the RetryAttempts its loop is allowed.
C23_BoundedRetries ==
    (arg.fn \in SearchLoops \cup FilesLoops) => ret.raised <= RetryAttempts

\* C24: rate-limit answers alone never make a search or a file-list
\* verification give up: a call that ended by abandoning its pages or by
\* reporting failure has seen some other failure (another status or an
\* exception), however many rate-limit answers it got and whatever reset
\* time they carried.
C24_RateLimitNeverFails ==
    (/\ arg.fn \in SearchLoops \cup {"verify_navigator_changes"}
     /\ op = "return"
     /\ ret.outcome \in {"abandoned", "failed"}) => ret.other

\* C27: when the file list of a PR could not be fetched (attempts used up
\* or a status other than 200), update_json_with_patches leaves the PR
\* without a patches field, so that a later run fetches it again.
C27_FailedFetchLeavesNoPatches ==
    (/\ arg.fn = "update_json_with_patches"
     /\ op = "return"
     /\ ret.outcome = "failed") => ret.patches = Absent

\* ---------------------------------------------------------------------
\* C25: the header pass of extract_modified_functions takes a name only
\* from a hunk header line itself: every name it contributes is the name
\* of a signature that stands on a line beginning with the hunk marker,
\* never one that stands only on a line after a header without context.
C25_HeaderPassOnlyHeaderLine ==
    Returned("extract_modified_functions") =>
        \A name \in header_names(arg.patch_text) :
            /\ name \in ret
            /\ \E i \in DOMAIN PatchOf :
                  /\ starts_with(PatchOf[i], "@")
                  /\ name \in header_names(PatchOf[i])

\* ---------------------------------------------------------------------
\* process_all_prs without termination from outside.  The pool runs every
\* thread that can take a step, and the main thread goes on once every
\* future has its result: each worker's steps and the two steps of the
\* final save are weakly fair.  A new run is the user's choice and has no
\* fairness.

WorkerStep(w) ==
    \/ StartTask(w)
    \/ AcquireResults(w)
    \/ WriteResult(w)
    \/ CountPR(w)
    \/ AcquireForCheckpoint(w)
    \/ OpenCheckpoint(w)
    \/ DumpCheckpoint(w)
    \/ FinishTask(w)

NextRunning ==
    \/ \E w \in Workers : WorkerStep(w)
    \/ OpenOutput
    \/ DumpOutput
    \/ Restart

SpecRunning ==
    /\ Init
    /\ [][NextRunning]_vars
    /\ \A w \in Workers : WF_vars(WorkerStep(w))
    /\ WF_vars(OpenOutput)
    /\ WF_vars(DumpOutput)

\* C26: process_all_prs cannot deadlock: in every run every submitted task
\* finishes and the final save of the output file is reached.
C26_TasksFinishAndFlush ==
    (mainPc = "running") ~> (AllTasksEnded /\ mainPc = "done" /\ outWrites > 0)

\* a run of two threads that wrote a checkpoint, holding both locks, and
\* reached the end of the final save
C26_Witness ==
    /\ mainPc = "done"
    /\ AllTasksEnded
    /\ thread_count = MaxThreads
    /\ flushed
    /\ outWrites > 0

\* ---------------------------------------------------------------------
\* C28: the function that extract_cpp_function returns has exactly the
\* requested identifier (and class): the header it found does not begin
\* inside a longer identifier, so a name or class that only ends with the
\* requested text is not taken.
C28_ExactIdentifier ==
    (Returned("extract_cpp_function") /\ ret # None) =>
        LET start == header_start(arg.content, arg.name) IN
        start = 1 \/ ~IsWord(arg.content[start - 1])

\* ---------------------------------------------------------------------
\* analyze_prs_with_threads: the PRs without a classification are cut into
\* batches, a pool of num_threads threads runs process_pr_batch on them,
\* and every successful analysis is written by update_pr_in_file, which
\* reads the file, changes one record and writes the file back.

MaxAnalysed == 3

AnalysisRecords == [number : {0}, title : {"t"}, isLogicError : {Absent, "old"}]

\* the files of 1..MaxAnalysed records, numbered in order
AnalysisFiles ==
    {[i \in 1..k |-> [f[i] EXCEPT !.number = i]] :
        k \in 1..MaxAnalysed, f \in [1..MaxAnalysed -> AnalysisRecords]}

\* [pr for pr in pr_data if 'isLogicError' not in pr]
Unclassified(pr) == pr.isLogicError = Absent
prs_to_analyze(pr_data) == SelectSeq(pr_data, Unclassified)

batch_size(count, num_threads) ==
    IF count \div num_threads = 0 THEN 1 ELSE count \div num_threads

\* prs_to_analyze[i:end_idx] for i in range(0, len, batch_size)
pr_batches(todo, num_threads) ==
    LET size == batch_size(Len(todo), num_threads)
        count == (Len(todo) + size - 1) \div size
    IN [k \in 1..count |->
           SubSeq(todo, (k - 1) * size + 1, Min({k * size, Len(todo)}))]

\* lines 70-74: the first record with the number gets the two fields
update_pr(pr_data, pr_number, is_logic_error) ==
    LET hits == {i \in DOMAIN pr_data : pr_data[i].number = pr_number} IN
    IF hits = {} THEN pr_data
    ELSE [pr_data EXCEPT ![Min(hits)].isLogicError = is_logic_error]

InitAnalysis ==
    /\ PipelineOff
    /\ op = "call"
    /\ \E f \in AnalysisFiles, n \in 1..MaxThreads :
          arg = [fn |-> "analyze_prs_with_threads", json_file |-> f,
                 num_threads |-> n]
    /\ ret = <<>>

\* lines 252-291: load, filter, cut into batches, submit
SubmitBatches ==
    /\ op = "call"
    /\ arg.fn = "analyze_prs_with_threads"
    /\ LET batches == pr_batches(prs_to_analyze(arg.json_file), arg.num_threads)
       IN /\ ret' = [file |-> arg.json_file,
                     json_lock |-> NoOwner,
                     batches |-> batches,
                     at |-> [b \in DOMAIN batches |-> "submitted"],
                     pos |-> [b \in DOMAIN batches |-> 1],
                     verdict |-> [b \in DOMAIN batches |-> Absent],
                     pr_data |-> [b \in DOMAIN batches |-> <<>>],
                     analysed |-> [i \in DOMAIN arg.json_file |-> Absent]]
          /\ op' = IF batches = <<>> THEN "return" ELSE "pool"
    /\ UNCHANGED <<pipelineVars, arg>>

Running(b) == ret.at[b] \notin {"submitted", "done"}

\* a free pool thread starts process_pr_batch; ChatOpenAI(...) may raise
StartBatch(b) ==
    /\ op = "pool"
    /\ ret.at[b] = "submitted"
    /\ Cardinality({c \in DOMAIN ret.batches : Running(c)}) < arg.num_threads
    /\ \/ ret' = [ret EXCEPT !.at[b] = "analyse"]
       \/ ret' = [ret EXCEPT !.at[b] = "done"]
    /\ UNCHANGED <<op, pipelineVars, arg>>

\* lines 218-240: the next PR of the batch is analysed; a failed analysis
\* writes nothing
AnalysePR(b) ==
    /\ op = "pool"
    /\ ret.at[b] = "analyse"
    /\ IF ret.pos[b] > Len(ret.batches[b])
       THEN ret' = [ret EXCEPT !.at[b] = "done"]
       ELSE LET pr == ret.batches[b][ret.pos[b]] IN
            \/ ret' = [ret EXCEPT !.pos[b] = @ + 1]
            \/ \E v \in {"True", "False"} :
                  ret' = [ret EXCEPT !.verdict[b] = v,
                                     !.analysed[pr.number] = v,
                                     !.at[b] = "lock"]
    /\ UNCHANGED <<op, pipelineVars, arg>>

\* "with json_lock:"
AcquireJson(b) ==
    /\ op = "pool"
    /\ ret.at[b] = "lock"
    /\ can_acquire(ret.json_lock)
    /\ ret' = [ret EXCEPT !.json_lock = b, !.at[b] = "read"]
    /\ UNCHANGED <<op, pipelineVars, arg>>

\* lines 66-67: pr_data = json.load(f)
ReadJson(b) ==
    /\ op = "pool"
    /\ ret.at[b] = "read"
    /\ ret' = [ret EXCEPT !.pr_data[b] = ret.file, !.at[b] = "write"]
    /\ UNCHANGED <<op, pipelineVars, arg>>

\* lines 70-78: the record is changed, the file written and the lock left
WriteJson(b) ==
    /\ op = "pool"
    /\ ret.at[b] = "write"
    /\ ret' = [ret EXCEPT
                 !.file = update_pr(ret.pr_data[b],
                                    ret.batches[b][ret.pos[b]].number,
                                    ret.verdict[b]),
                 !.json_lock = release(ret.json_lock),
                 !.pos[b] = @ + 1,
                 !.at[b] = "analyse"]
    /\ UNCHANGED <<op, pipelineVars, arg>>

\* lines 294-300: every future is completed
PoolDone ==
    /\ op = "pool"
    /\ \A b \in DOMAIN ret.batches : ret.at[b] = "done"
    /\ op' = "return"
    /\ UNCHANGED <<ret, pipelineVars, arg>>

NextAnalysis ==
    \/ SubmitBatches
    \/ \E b \in 1..MaxAnalysed :
          /\ op = "pool"
          /\ b \in DOMAIN ret.batches
          /\ (StartBatch(b) \/ AnalysePR(b) \/ AcquireJson(b) \/ ReadJson(b)
                \/ WriteJson(b))
    \/ PoolDone

SpecAnalysis == InitAnalysis /\ [][NextAnalysis]_vars

MaxSpan == 9
Year == 2024
FirstDay == 57
SearchThreads == 4

MonthDays == <<31, 29, 31, 30, 31, 30, 31, 31, 30, 31, 30, 31>>

RECURSIVE DaysBefore(_)
DaysBefore(month) ==
    IF month = 1 THEN 0 ELSE DaysBefore(month - 1) + MonthDays[month - 1]

\* datetime.strptime(date, "%Y-%m-%d"), as the day of the year
strptime(date) == DaysBefore(date[2]) + date[3]

\* dt.strftime("%Y-%m-%d")
strftime(dt) ==
    LET month == CHOOSE m \in 1..12 :
                     DaysBefore(m) < dt /\ dt <= DaysBefore(m) + MonthDays[m]
    IN <<Year, month, dt - DaysBefore(month)>>

\* total_days // 4 in search_with_threads, max(1, total_days // 4) in
\* search_with_threads_combined
segment_days(fn, total_days) ==
    IF fn = "search_with_threads_combined"
    THEN Max({1, total_days \div SearchThreads})
    ELSE total_days \div SearchThreads

date_ranges(fn, start_date, end_date) ==
    LET start_dt == strptime(start_date)
        end_dt == strptime(end_date)
        segment == segment_days(fn, end_dt - start_dt)
    IN [k \in 1..SearchThreads |->
           <<strftime(start_dt + (k - 1) * segment),
             strftime(IF k < SearchThreads THEN start_dt + k * segment
                      ELSE end_dt)>>]

SearchDates == {strftime(n) : n \in FirstDay..(FirstDay + MaxSpan)}

\* a <= b for two date strings of the same year
NotAfter(a, b) == a[2] < b[2] \/ (a[2] = b[2] /\ a[3] <= b[3])

InitRanges ==
    /\ PipelineOff
    /\ op = "call"
    /\ \E fn \in {"search_with_threads", "search_with_threads_combined"},
          s \in SearchDates, e \in SearchDates :
          /\ NotAfter(s, e)
          /\ arg = [fn |-> fn, start_date |-> s, end_date |-> e]
    /\ ret = <<>>

BuildRanges ==
    /\ op = "call"
    /\ arg.fn \in {"search_with_threads", "search_with_threads_combined"}
    /\ op' = "return"
    /\ ret' = date_ranges(arg.fn, arg.start_date, arg.end_date)
    /\ UNCHANGED <<pipelineVars, arg>>

SpecRanges == InitRanges /\ [][BuildRanges]_vars

\* C30: for start_date <= end_date each of the four ranges has its start
\* not after its end and lies within [start_date, end_date], each range
\* starts where the one before ends, and the first starts at start_date
\* and the last ends at end_date.
C30_RangesPartition ==
    (/\ op = "return"
     /\ arg.fn \in {"search_with_threads", "search_with_threads_combined"}) =>
        /\ \A k \in 1..SearchThreads :
              /\ NotAfter(ret[k][1], ret[k][2])
              /\ NotAfter(arg.start_date, ret[k][1])
              /\ NotAfter(ret[k][2], arg.end_date)
        /\ \A k \in 1..(SearchThreads - 1) : ret[k + 1][1] = ret[k][2]
        /\ ret[1][1] = arg.start_date
        /\ ret[SearchThreads][2] = arg.end_date

====
